---- MODULE Spec2Model ----
(***************************************************************************)
(* Model of nextlinux-ci/db_canonicalizer.py: a one-shot program that      *)
(* classifies the statements of two Postgres DDL dumps by leading keyword  *)
(* (canonicalize_ddl) and compares the two classifications                 *)
(* (compare_ddl_files).                                                    *)
(*                                                                         *)
(* A statement is the string returned by the statement splitter, modelled  *)
(* as a sequence of one-character strings so that str.startswith is a real *)
(* prefix test.  A DDL input is the sequence of statements the splitter    *)
(* returns for one file.                                                   *)
(***************************************************************************)
EXTENDS Integers, Sequences, FiniteSets, TLC

VARIABLES argc, pc, exit_status, exit_line, logger_made, opened, canonicalized,
          old_ddl, new_ddl, old_stmts, new_stmts, logfile, stdout

vars == <<argc, pc, exit_status, exit_line, logger_made, opened, canonicalized,
          old_ddl, new_ddl, old_stmts, new_stmts, logfile, stdout>>

----------------------------------------------------------------------------
(* Bounds *)

\* longest sequence of statements in one DDL file of the whole-program runs
MaxStmts == 2

\* longest sequence of statements handed to canonicalize_ddl on its own
MaxClassifyStmts == 2

\* largest len(sys.argv) tried (1 = no positional argument)
MaxArgc == 4

----------------------------------------------------------------------------
(* Strings *)

Range(s) == {s[i] : i \in 1..Len(s)}

\* str.startswith(prefix)
StartsWith(stmt, prefix) ==
    /\ Len(stmt) >= Len(prefix)
    /\ SubSeq(stmt, 1, Len(prefix)) = prefix

\* The prefixes tested by canonicalize_ddl
P_ALTER == <<"A","L","T","E","R">>
P_COMMENT == <<"C","O","M","M","E","N","T">>
P_CREATE_EXTENSION == <<"C","R","E","A","T","E"," ","E","X","T","E","N","S","I","O","N">>
P_CREATE_SEQUENCE == <<"C","R","E","A","T","E"," ","S","E","Q","U","E","N","C","E">>
P_CREATE_SCHEMA == <<"C","R","E","A","T","E"," ","S","C","H","E","M","A">>
P_CREATE_TABLE == <<"C","R","E","A","T","E"," ","T","A","B","L","E">>
P_CREATE_TYPE == <<"C","R","E","A","T","E"," ","T","Y","P","E">>
P_CREATE_INDEX == <<"C","R","E","A","T","E"," ","I","N","D","E","X">>
P_CREATE_UNIQUE_INDEX == <<"C","R","E","A","T","E"," ","U","N","I","Q","U","E"," ","I","N","D","E","X">>
P_SELECT == <<"S","E","L","E","C","T">>
P_SET_loose == <<"S","E">>
P_SET == <<"S","E","T">>

----------------------------------------------------------------------------
(* Inputs *)

\* Statements the splitter can return: the prefix followed by " a" or " b".
StmtA(prefix) == prefix \o <<" ","a">>
StmtB(prefix) == prefix \o <<" ","b">>

\* Statements no rule recognizes
VACUUM_stmt == <<"V","A","C","U","U","M"," ","t",";">>
lower_set_stmt == <<"s","e","t"," ","a">>
commented_set_stmt == <<"-","-"," ","c","\n","S","E","T"," ","a">>
CREATE_VIEW_stmt == <<"C","R","E","A","T","E"," ","V","I","E","W"," ","a">>
CREATE_UNIQUE_stmt == <<"C","R","E","A","T","E"," ","U","N","I","Q","U","E"," ","a">>
SE_stmt == <<"S","E">>

\* statements of the two files in a whole-program run
CompareStmts ==
    { StmtA(P_CREATE_TABLE), StmtB(P_CREATE_TABLE), StmtA(P_ALTER),
      StmtA(P_SET), StmtA(P_SELECT), StmtA(P_CREATE_UNIQUE_INDEX), VACUUM_stmt }

\* statements handed to canonicalize_ddl on its own: every prefix, and
\* near misses of the prefixes
ClassifyStmts ==
    { StmtA(P_ALTER), StmtA(P_COMMENT), StmtA(P_CREATE_EXTENSION),
      StmtA(P_CREATE_SEQUENCE), StmtA(P_CREATE_SCHEMA), StmtA(P_CREATE_TABLE),
      StmtA(P_CREATE_TYPE), StmtA(P_CREATE_INDEX), StmtA(P_CREATE_UNIQUE_INDEX),
      StmtA(P_SELECT), StmtA(P_SET), P_SET,
      VACUUM_stmt, lower_set_stmt, commented_set_stmt, CREATE_VIEW_stmt,
      CREATE_UNIQUE_stmt, SE_stmt }

SeqsUpTo(S, n) == UNION { [1..k -> S] : k \in 0..n }

----------------------------------------------------------------------------
(* canonicalize_ddl *)

\* the keys of all_stmts
StmtTypeSet ==
    { "alter", "comment", "create_extension", "create_index", "create_schema",
      "create_sequence", "create_table", "create_type", "select", "sets" }

\* all_stmts as built before the loop: every key mapped to an empty list
EmptyStmts_nosets == [t \in StmtTypeSet \ {"sets"} |-> <<>>]
EmptyStmts == [t \in StmtTypeSet |-> <<>>]

\* the if/elif chain of the loop body: the list the statement is appended to,
\* "unknown" for the else branch
Classify_else_sets(stmt) ==
    IF StartsWith(stmt, P_ALTER) THEN "alter"
    ELSE IF StartsWith(stmt, P_COMMENT) THEN "comment"
    ELSE IF StartsWith(stmt, P_CREATE_EXTENSION) THEN "create_extension"
    ELSE IF StartsWith(stmt, P_CREATE_SEQUENCE) THEN "create_sequence"
    ELSE IF StartsWith(stmt, P_CREATE_SCHEMA) THEN "create_schema"
    ELSE IF StartsWith(stmt, P_CREATE_TABLE) THEN "create_table"
    ELSE IF StartsWith(stmt, P_CREATE_TYPE) THEN "create_type"
    ELSE IF (StartsWith(stmt, P_CREATE_INDEX) \/ StartsWith(stmt, P_CREATE_UNIQUE_INDEX))
         THEN "create_index"
    ELSE IF StartsWith(stmt, P_SELECT) THEN "select"
    ELSE "sets"
Classify_no_unique(stmt) ==
    IF StartsWith(stmt, P_ALTER) THEN "alter"
    ELSE IF StartsWith(stmt, P_COMMENT) THEN "comment"
    ELSE IF StartsWith(stmt, P_CREATE_EXTENSION) THEN "create_extension"
    ELSE IF StartsWith(stmt, P_CREATE_SEQUENCE) THEN "create_sequence"
    ELSE IF StartsWith(stmt, P_CREATE_SCHEMA) THEN "create_schema"
    ELSE IF StartsWith(stmt, P_CREATE_TABLE) THEN "create_table"
    ELSE IF StartsWith(stmt, P_CREATE_TYPE) THEN "create_type"
    ELSE IF StartsWith(stmt, P_CREATE_INDEX) THEN "create_index"
    ELSE IF StartsWith(stmt, P_SELECT) THEN "select"
    ELSE IF StartsWith(stmt, P_SET) THEN "sets"
    ELSE "unknown"
Classify(stmt) ==
    IF StartsWith(stmt, P_ALTER) THEN "alter"
    ELSE IF StartsWith(stmt, P_COMMENT) THEN "comment"
    ELSE IF StartsWith(stmt, P_CREATE_EXTENSION) THEN "create_extension"
    ELSE IF StartsWith(stmt, P_CREATE_SEQUENCE) THEN "create_sequence"
    ELSE IF StartsWith(stmt, P_CREATE_SCHEMA) THEN "create_schema"
    ELSE IF StartsWith(stmt, P_CREATE_TABLE) THEN "create_table"
    ELSE IF StartsWith(stmt, P_CREATE_TYPE) THEN "create_type"
    ELSE IF (StartsWith(stmt, P_CREATE_INDEX) \/ StartsWith(stmt, P_CREATE_UNIQUE_INDEX))
         THEN "create_index"
    ELSE IF StartsWith(stmt, P_SELECT) THEN "select"
    ELSE IF StartsWith(stmt, P_SET) THEN "sets"
    ELSE "unknown"

\* log levels: logging.DEBUG, logging.INFO and the added logging.FAIL
DEBUG == 10
INFO == 20
FAIL == 70

\* one log record: level, format string, and the format arguments
LogRecord(level, fmt, stmt_type, stmt, diff) ==
    [level |-> level, fmt |-> fmt, stmt_type |-> stmt_type, stmt |-> stmt, diff |-> diff]

UnknownRecord(stmt) == LogRecord(DEBUG, "Unknown statement: {}", "", stmt, {})

\* the value canonicalize_ddl returns for the statements the splitter returned
RECURSIVE canonicalize_ddl(_)
canonicalize_ddl(statements) ==
    IF statements = <<>> THEN EmptyStmts
    ELSE LET before == canonicalize_ddl(SubSeq(statements, 1, Len(statements) - 1))
             stmt == statements[Len(statements)]
             list == Classify(stmt)
         IN  IF list = "unknown" THEN before
             ELSE [before EXCEPT ![list] = Append(@, stmt)]

\* the records canonicalize_ddl logs, in order
RECURSIVE canonicalize_log(_)
canonicalize_log(statements) ==
    IF statements = <<>> THEN <<>>
    ELSE LET stmt == Head(statements)
         IN  (IF Classify(stmt) = "unknown" THEN <<UnknownRecord(stmt)>> ELSE <<>>)
             \o canonicalize_log(Tail(statements))

----------------------------------------------------------------------------
(* compare_ddl_files *)

\* the list the for loop of compare_ddl_files iterates over
StmtTypes_swapped ==
    << "comment", "alter", "create_extension", "create_index", "create_schema",
       "create_sequence", "create_table", "create_type", "select", "sets" >>
StmtTypes ==
    << "alter", "comment", "create_extension", "create_index", "create_schema",
       "create_sequence", "create_table", "create_type", "select", "sets" >>

SameRecord == LogRecord(DEBUG, "Canonicalized DDL is the same.", "", <<>>, {})
EqualRecord(stmt_type) == LogRecord(DEBUG, "{}: Statements equal.", stmt_type, <<>>, {})
OldNotNewRecord(stmt_type, diff) ==
    LogRecord(FAIL, "{}: In old DDL but not new: {}", stmt_type, <<>>, diff)
NewNotOldRecord(stmt_type, diff) ==
    LogRecord(FAIL, "{}: In new DDL but not old: {}", stmt_type, <<>>, diff)

\* one iteration of the for loop: the records it logs
LoopBody_same_direction(olds, news, stmt_type) ==
    LET old_set == Range(olds[stmt_type])
        new_set == Range(news[stmt_type])
    IN  IF old_set = new_set THEN << EqualRecord(stmt_type) >>
        ELSE << OldNotNewRecord(stmt_type, old_set \ new_set),
                NewNotOldRecord(stmt_type, old_set \ new_set) >>
LoopBody(olds, news, stmt_type) ==
    LET old_set == Range(olds[stmt_type])
        new_set == Range(news[stmt_type])
    IN  IF old_set = new_set THEN << EqualRecord(stmt_type) >>
        ELSE << OldNotNewRecord(stmt_type, old_set \ new_set),
                NewNotOldRecord(stmt_type, new_set \ old_set) >>

\* the for loop from its i-th iteration on
RECURSIVE Loop(_, _, _)
Loop(olds, news, i) ==
    IF i > Len(StmtTypes) THEN <<>>
    ELSE LoopBody(olds, news, StmtTypes[i]) \o Loop(olds, news, i + 1)

\* the test of line 159
StmtsEqual(olds, news) == olds = news

\* lines 159-178 as a function of the two classifications
compare_status(olds, news) == IF StmtsEqual(olds, news) THEN 0 ELSE 1
compare_log(olds, news) ==
    IF StmtsEqual(olds, news) THEN << SameRecord >> ELSE Loop(olds, news, 1)

----------------------------------------------------------------------------
(* The logger built by make_logger: the file handler takes every record    *)
(* (level DEBUG), the stream handler on stdout those of level INFO and up. *)

UsageLine == "Args should include old DDL file and new DDL file, relative to pwd."

ToStdout(records) == SelectSeq(records, LAMBDA r : r.level >= INFO)

Emit(records) ==
    /\ logfile' = logfile \o records
    /\ stdout' = stdout \o ToStdout(records)

----------------------------------------------------------------------------
(* The program *)

Inputs == SeqsUpTo(CompareStmts, MaxStmts)

Init ==
    /\ argc \in 1..MaxArgc
    /\ pc = "main"
    /\ exit_status = -1
    /\ exit_line = 0
    /\ logger_made = FALSE
    /\ opened = {}
    /\ canonicalized = {}
    /\ old_ddl = <<>>
    /\ new_ddl = <<>>
    /\ old_stmts = <<>>
    /\ new_stmts = <<>>
    /\ logfile = <<>>
    /\ stdout = <<>>

Exit(status, line) ==
    /\ pc' = "exited"
    /\ exit_status' = status
    /\ exit_line' = line

\* __main__ with the wrong number of arguments
Usage ==
    /\ pc = "main"
    /\ argc # 3
    /\ stdout' = Append(stdout, UsageLine)
    /\ Exit(1, 183)
    /\ UNCHANGED <<argc, logger_made, opened, canonicalized, old_ddl, new_ddl,
                   old_stmts, new_stmts, logfile>>

\* __main__ calling compare_ddl_files
Main_not_usage ==
    /\ pc = "main"
    /\ ~ (argc < 3)
    /\ pc' = "make_logger"
    /\ UNCHANGED <<argc, exit_status, exit_line, logger_made, opened, canonicalized,
                   old_ddl, new_ddl, old_stmts, new_stmts, logfile, stdout>>
Main ==
    /\ pc = "main"
    /\ ~ (argc # 3)
    /\ pc' = "make_logger"
    /\ UNCHANGED <<argc, exit_status, exit_line, logger_made, opened, canonicalized,
                   old_ddl, new_ddl, old_stmts, new_stmts, logfile, stdout>>

MakeLogger ==
    /\ pc = "make_logger"
    /\ logger_made' = TRUE
    /\ pc' = "open_old"
    /\ UNCHANGED <<argc, exit_status, exit_line, opened, canonicalized,
                   old_ddl, new_ddl, old_stmts, new_stmts, logfile, stdout>>

\* open(old) succeeds
OpenOld ==
    /\ pc = "open_old"
    /\ opened' = opened \cup {"old"}
    /\ pc' = "canonicalize_old"
    /\ UNCHANGED <<argc, exit_status, exit_line, logger_made, canonicalized,
                   old_ddl, new_ddl, old_stmts, new_stmts, logfile, stdout>>

\* open(old) raises; nothing catches it
OpenOldRaises ==
    /\ pc = "open_old"
    /\ Exit(1, 156)
    /\ UNCHANGED <<argc, logger_made, opened, canonicalized,
                   old_ddl, new_ddl, old_stmts, new_stmts, logfile, stdout>>

\* old_stmts = canonicalize_ddl(<old file>, log)
CanonicalizeOld ==
    /\ pc = "canonicalize_old"
    /\ \E ddl \in Inputs :
         /\ old_ddl' = ddl
         /\ old_stmts' = canonicalize_ddl(ddl)
         /\ Emit(canonicalize_log(ddl))
    /\ canonicalized' = canonicalized \cup {"old"}
    /\ pc' = "open_new"
    /\ UNCHANGED <<argc, exit_status, exit_line, logger_made, opened,
                   new_ddl, new_stmts>>

\* open(new) succeeds
OpenNew ==
    /\ pc = "open_new"
    /\ opened' = opened \cup {"new"}
    /\ pc' = "canonicalize_new"
    /\ UNCHANGED <<argc, exit_status, exit_line, logger_made, canonicalized,
                   old_ddl, new_ddl, old_stmts, new_stmts, logfile, stdout>>

\* open(new) raises; nothing catches it
OpenNewRaises_late ==
    /\ pc = "compare"
    /\ Exit(1, 157)
    /\ UNCHANGED <<argc, logger_made, opened, canonicalized,
                   old_ddl, new_ddl, old_stmts, new_stmts, logfile, stdout>>
OpenNewRaises ==
    /\ pc = "open_new"
    /\ Exit(1, 157)
    /\ UNCHANGED <<argc, logger_made, opened, canonicalized,
                   old_ddl, new_ddl, old_stmts, new_stmts, logfile, stdout>>

\* new_stmts = canonicalize_ddl(<new file>, log)
CanonicalizeNew ==
    /\ pc = "canonicalize_new"
    /\ \E ddl \in Inputs :
         /\ new_ddl' = ddl
         /\ new_stmts' = canonicalize_ddl(ddl)
         /\ Emit(canonicalize_log(ddl))
    /\ canonicalized' = canonicalized \cup {"new"}
    /\ pc' = "compare"
    /\ UNCHANGED <<argc, exit_status, exit_line, logger_made, opened,
                   old_ddl, old_stmts>>

\* lines 159-161: the classifications are equal
CompareSame ==
    /\ pc = "compare"
    /\ StmtsEqual(old_stmts, new_stmts)
    /\ Emit(compare_log(old_stmts, new_stmts))
    /\ Exit(compare_status(old_stmts, new_stmts), 161)
    /\ UNCHANGED <<argc, logger_made, opened, canonicalized,
                   old_ddl, new_ddl, old_stmts, new_stmts>>

\* lines 163-178: they are not; the loop over the statement types
CompareDiffer ==
    /\ pc = "compare"
    /\ ~ StmtsEqual(old_stmts, new_stmts)
    /\ Emit(compare_log(old_stmts, new_stmts))
    /\ Exit(compare_status(old_stmts, new_stmts), 178)
    /\ UNCHANGED <<argc, logger_made, opened, canonicalized,
                   old_ddl, new_ddl, old_stmts, new_stmts>>

Next ==
    \/ Usage
    \/ Main
    \/ MakeLogger
    \/ OpenOld
    \/ OpenOldRaises
    \/ CanonicalizeOld
    \/ OpenNew
    \/ OpenNewRaises
    \/ CanonicalizeNew
    \/ CompareSame
    \/ CompareDiffer

Spec == Init /\ [][Next]_vars

----------------------------------------------------------------------------
(* canonicalize_ddl on its own, applied to every bounded input *)

ClassifyInputs == SeqsUpTo(ClassifyStmts, MaxClassifyStmts)

InitClassify ==
    /\ argc = 3
    /\ pc = "canonicalize_old"
    /\ exit_status = -1
    /\ exit_line = 0
    /\ logger_made = TRUE
    /\ opened = {"old"}
    /\ canonicalized = {}
    /\ old_ddl = <<>>
    /\ new_ddl = <<>>
    /\ old_stmts = <<>>
    /\ new_stmts = <<>>
    /\ logfile = <<>>
    /\ stdout = <<>>

CanonicalizeCall ==
    /\ pc = "canonicalize_old"
    /\ \E ddl \in ClassifyInputs :
         /\ old_ddl' = ddl
         /\ old_stmts' = canonicalize_ddl(ddl)
         /\ Emit(canonicalize_log(ddl))
    /\ canonicalized' = canonicalized \cup {"old"}
    /\ pc' = "open_new"
    /\ UNCHANGED <<argc, exit_status, exit_line, logger_made, opened,
                   new_ddl, new_stmts>>

NextClassify == CanonicalizeCall

SpecClassify == InitClassify /\ [][NextClassify]_vars

----------------------------------------------------------------------------
(* Vocabulary of the properties *)

\* the process ended inside compare_ddl_files by sys.exit (line 161 or 178)
CompareEnded == pc = "exited" /\ exit_line \in {161, 178}

\* the ten categories, in the order the properties list them
CategoryOrder ==
    << "alter", "comment", "create_extension", "create_index", "create_schema",
       "create_sequence", "create_table", "create_type", "select", "sets" >>
Categories == Range(CategoryOrder)

\* the prefix rules in the order the if/elif chain tests them
RuleOrder ==
    << [prefixes |-> {P_ALTER}, list |-> "alter"],
       [prefixes |-> {P_COMMENT}, list |-> "comment"],
       [prefixes |-> {P_CREATE_EXTENSION}, list |-> "create_extension"],
       [prefixes |-> {P_CREATE_SEQUENCE}, list |-> "create_sequence"],
       [prefixes |-> {P_CREATE_SCHEMA}, list |-> "create_schema"],
       [prefixes |-> {P_CREATE_TABLE}, list |-> "create_table"],
       [prefixes |-> {P_CREATE_TYPE}, list |-> "create_type"],
       [prefixes |-> {P_CREATE_INDEX, P_CREATE_UNIQUE_INDEX}, list |-> "create_index"],
       [prefixes |-> {P_SELECT}, list |-> "select"],
       [prefixes |-> {P_SET}, list |-> "sets"] >>

RuleMatches(rule, stmt) == \E p \in rule.prefixes : StartsWith(stmt, p)

\* the statement matches some prefix rule
Recognized(stmt) == \E i \in 1..Len(RuleOrder) : RuleMatches(RuleOrder[i], stmt)

\* the input without the statements no rule matches
Strip(ddl) == SelectSeq(ddl, Recognized)

\* the list of the first rule that matches when the rules are tested in the
\* order given by the sequence of rule numbers, "unknown" when none does
RECURSIVE FirstMatchIn(_, _)
FirstMatchIn(order, stmt) ==
    IF order = <<>> THEN "unknown"
    ELSE IF RuleMatches(RuleOrder[Head(order)], stmt) THEN RuleOrder[Head(order)].list
    ELSE FirstMatchIn(Tail(order), stmt)

RuleNumbers == 1..Len(RuleOrder)
InOrder == [i \in RuleNumbers |-> i]
Reversed == [i \in RuleNumbers |-> Len(RuleOrder) + 1 - i]
Transposed(a, b) == [i \in RuleNumbers |-> IF i = a THEN b ELSE IF i = b THEN a ELSE i]

\* the statements of ddl, in order, whose first matching rule under the
\* order is the one of the list
Selected(ddl, order, list) == SelectSeq(ddl, LAMBDA s : FirstMatchIn(order, s) = list)

FailRecords(records) == SelectSeq(records, LAMBDA r : r.level = FAIL)

\* the differences the records report for a category in one direction
Reported(records, fmt, stmt_type) ==
    { records[i].diff : i \in { j \in 1..Len(records) :
                                  /\ records[j].fmt = fmt
                                  /\ records[j].stmt_type = stmt_type } }
OldNotNewFmt == "{}: In old DDL but not new: {}"
NewNotOldFmt == "{}: In new DDL but not old: {}"

SetsEqual(olds, news, t) == Range(olds[t]) = Range(news[t])

Position(t) == CHOOSE i \in 1..Len(CategoryOrder) : CategoryOrder[i] = t

----------------------------------------------------------------------------
(* Properties *)

\* C1: compare_ddl_files ends with exit status 0 exactly when, for every one
\* of the ten categories, the set of statements classified from the old file
\* equals the set classified from the new file (order and repetition of the
\* statements within a category do not matter).
C1_ExitZeroIffSetsEqual ==
    CompareEnded =>
        (exit_status = 0 <=> \A t \in Categories : SetsEqual(old_stmts, new_stmts, t))

\* C2: whenever compare_ddl_files ends with exit status 1, failure-level
\* records have been logged for at least one category; whenever it ends with
\* exit status 0, no failure-level record has been logged.
C2_ExitOneIffFailLogged ==
    CompareEnded =>
        /\ exit_status = 1 =>
             \E t \in Categories : \E i \in 1..Len(logfile) :
                 logfile[i].level = FAIL /\ logfile[i].stmt_type = t
        /\ exit_status = 0 => FailRecords(logfile) = <<>>

\* C3: statements that match no prefix rule do not take part in the
\* comparison: the exit status and the failure records of a run are those of
\* the run on the two inputs with every unrecognized statement removed.
C3_UnknownIgnored ==
    CompareEnded =>
        LET olds == canonicalize_ddl(Strip(old_ddl))
            news == canonicalize_ddl(Strip(new_ddl))
        IN  /\ exit_status = compare_status(olds, news)
            /\ FailRecords(logfile) = FailRecords(compare_log(olds, news))

C3_Witness ==
    /\ CompareEnded
    /\ exit_status = 0
    /\ \E i \in 1..Len(old_ddl) : ~ Recognized(old_ddl[i])
    /\ \A i \in 1..Len(new_ddl) : Recognized(new_ddl[i])
    /\ new_ddl # <<>>

\* C4: comparison is symmetric: compare(A, B) ends with exit status 1 exactly
\* when compare(B, A) does, and for every category what compare(A, B) reports
\* as in old but not new is what compare(B, A) reports as in new but not old
\* (and the other way round).
C4_Symmetric ==
    CompareEnded =>
        LET swapped == compare_log(new_stmts, old_stmts)
        IN  /\ exit_status = 1 <=> compare_status(new_stmts, old_stmts) = 1
            /\ \A t \in Categories :
                 /\ Reported(logfile, OldNotNewFmt, t) = Reported(swapped, NewNotOldFmt, t)
                 /\ Reported(logfile, NewNotOldFmt, t) = Reported(swapped, OldNotNewFmt, t)

C4_Witness ==
    /\ CompareEnded
    /\ exit_status = 1
    /\ \E t \in Categories :
         /\ Reported(logfile, OldNotNewFmt, t) # {}
         /\ Reported(logfile, OldNotNewFmt, t) # Reported(logfile, NewNotOldFmt, t)

\* C5: canonicalize_ddl appends every statement to the list of the first
\* rule that matches it in the order ALTER, COMMENT, CREATE EXTENSION, CREATE
\* SEQUENCE, CREATE SCHEMA, CREATE TABLE, CREATE TYPE, CREATE INDEX / CREATE
\* UNIQUE INDEX, SELECT, SET, and to no list when no rule matches; a statement
\* beginning CREATE UNIQUE INDEX is in create_index.
C5_FirstMatchingRule ==
    "old" \in canonicalized =>
        /\ \A t \in Categories : old_stmts[t] = Selected(old_ddl, InOrder, t)
        /\ \A i \in 1..Len(old_ddl) :
             StartsWith(old_ddl[i], P_CREATE_UNIQUE_INDEX)
                 => old_ddl[i] \in Range(old_stmts["create_index"])

C5_Witness ==
    /\ "old" \in canonicalized
    /\ Len(old_ddl) = 2
    /\ StartsWith(old_ddl[1], P_CREATE_UNIQUE_INDEX)
    /\ ~ Recognized(old_ddl[2])
    /\ old_stmts["create_index"] = << old_ddl[1] >>

\* C6 as stated: when the old or the new path cannot be opened, no call of
\* canonicalize_ddl has run on either input.
C6_OpenFailsBeforeAnyClassification ==
    (pc = "exited" /\ exit_line \in {156, 157}) => canonicalized = {}

\* C6 amended: when the old path cannot be opened no call of canonicalize_ddl
\* has run; when the new path cannot be opened canonicalize_ddl has run on the
\* old input and not on the new one.
C6_OpenFailsBeforeOwnClassification ==
    /\ (pc = "exited" /\ exit_line = 156) => canonicalized = {}
    /\ (pc = "exited" /\ exit_line = 157) => canonicalized = {"old"}

C6_Witness ==
    /\ pc = "exited"
    /\ exit_line = 157
    /\ exit_status = 1
    /\ old_ddl # <<>>

\* C7: the classification canonicalize_ddl returns has exactly the ten keys
\* alter, comment, create_extension, create_index, create_schema,
\* create_sequence, create_table, create_type, select, sets, each mapped to a
\* sequence of statements, whatever the input.
C7_TenKeys ==
    "old" \in canonicalized =>
        /\ DOMAIN old_stmts =
             { "alter", "comment", "create_extension", "create_index",
               "create_schema", "create_sequence", "create_table", "create_type",
               "select", "sets" }
        /\ \A t \in DOMAIN old_stmts : old_stmts[t] \in Seq(Range(old_ddl))

C7_Witness ==
    /\ "old" \in canonicalized
    /\ old_ddl # <<>>
    /\ \A i \in 1..Len(old_ddl) : ~ Recognized(old_ddl[i])
    /\ \A t \in DOMAIN old_stmts : old_stmts[t] = <<>>

\* C8: with any number of positional arguments other than two the program
\* prints the usage message and exits with status 1; no logger is made, no
\* file is opened, nothing is classified or logged.
C8_UsageOnly ==
    argc # 3 =>
        /\ pc \in {"main", "exited"}
        /\ ~ logger_made
        /\ opened = {}
        /\ canonicalized = {}
        /\ logfile = <<>>
        /\ pc = "main" => stdout = <<>>
        /\ pc = "exited" => exit_status = 1 /\ exit_line = 183 /\ stdout = << UsageLine >>

C8_Witness ==
    /\ argc = 4
    /\ pc = "exited"
    /\ exit_status = 1
    /\ stdout = << UsageLine >>

\* C9: when the classifications are not found equal, the categories are
\* visited in the order alter, comment, create_extension, create_index,
\* create_schema, create_sequence, create_table, create_type, select, sets; a
\* category whose sets differ gets exactly two failure records, old minus new
\* and then new minus old, also when one of them is empty; a category whose
\* sets are equal gets none.
C9_ReportOrder ==
    (pc = "exited" /\ exit_line = 178) =>
        LET differing == SelectSeq(CategoryOrder,
                                   LAMBDA t : ~ SetsEqual(old_stmts, new_stmts, t))
            fails == FailRecords(logfile)
            visits == SelectSeq(logfile, LAMBDA r : r.stmt_type # "")
        IN  /\ Len(fails) = 2 * Len(differing)
            /\ \A i \in 1..Len(differing) :
                 LET t == differing[i]
                     old_set == Range(old_stmts[t])
                     new_set == Range(new_stmts[t])
                 IN  /\ fails[2 * i - 1] = OldNotNewRecord(t, old_set \ new_set)
                     /\ fails[2 * i] = NewNotOldRecord(t, new_set \ old_set)
            /\ { visits[i].stmt_type : i \in 1..Len(visits) } = Categories
            /\ \A i, j \in 1..Len(visits) :
                 i < j => Position(visits[i].stmt_type) <= Position(visits[j].stmt_type)

C9_Witness ==
    /\ pc = "exited"
    /\ exit_line = 178
    /\ Len(FailRecords(logfile)) = 4
    /\ \E i \in 1..Len(logfile) : logfile[i].level = FAIL /\ logfile[i].diff = {}

\* C10: the prefixes of different categories are pairwise exclusive (none is
\* a prefix of another, so no string starts with two of them), at most one
\* rule matches any statement, and the classification is the same when the
\* rules are tested in another order.
C10_RulesExclusive ==
    /\ \A i, j \in RuleNumbers :
         i # j => \A p \in RuleOrder[i].prefixes : \A q \in RuleOrder[j].prefixes :
                     ~ StartsWith(p, q) /\ ~ StartsWith(q, p)
    /\ "old" \in canonicalized =>
         /\ \A k \in 1..Len(old_ddl) :
              /\ Cardinality({ i \in RuleNumbers : RuleMatches(RuleOrder[i], old_ddl[k]) }) <= 1
              /\ \A a, b \in RuleNumbers :
                   FirstMatchIn(Transposed(a, b), old_ddl[k]) = Classify(old_ddl[k])
         /\ \A t \in Categories : old_stmts[t] = Selected(old_ddl, Reversed, t)

C10_Witness ==
    /\ "old" \in canonicalized
    /\ Len(old_ddl) = 2
    /\ StartsWith(old_ddl[1], P_SELECT)
    /\ StartsWith(old_ddl[2], P_SET)
    /\ old_stmts["select"] = << old_ddl[1] >>
    /\ old_stmts["sets"] = << old_ddl[2] >>

====
